---------------------------- MODULE Spec2Model ----------------------------
(***************************************************************************)
(* A state-machine model of the four hands-on lab notebooks of the DP-100  *)
(* course repository and of the two entry scripts they write:              *)
(*                                                                         *)
(*   batch      src/unnamed/part_000  (batch inferencing pipeline,         *)
(*                                     writes batch_diabetes.py)           *)
(*   telemetry  src/unnamed/part_001  (web service + Application Insights, *)
(*                                     writes score_diabetes.py)           *)
(*   hyper      src/unnamed/part_002  (hyperdrive experiment)              *)
(*   drift      src/Hands-on Labs/Monitor the Environment in Azure         *)
(*              Machine Learning-Drift.ipynb  (data drift monitor)         *)
(*                                                                         *)
(* One behaviour is one kernel session: Init chooses the notebook (nb) and *)
(* the state of the workspace it connects to, and the code cells then run  *)
(* top to bottom.  A cell is one action; a platform call inside it either  *)
(* succeeds or raises, and an exception that the cell does not catch stops *)
(* the session (pc = "failed").  The entry scripts are separate Python     *)
(* processes, started by the platform once the pipeline run is submitted or *)
(* the service deployed; their functions init and run may be called in any *)
(* order.                                                                  *)
(***************************************************************************)
EXTENDS Integers, Sequences, FiniteSets, TLC

(***************************************************************************)
(* Bounds of the model (not program constants).                            *)
(***************************************************************************)
MaxBatch == 2       \* longest mini-batch handed to batch_diabetes.run
MaxRows == 2        \* most rows in the 'data' field of a scoring request
MaxMetric == 2      \* metric values (Accuracy, AUC) range over 1..MaxMetric
MaxPrior == 1       \* versions of diabetes_model registered before the session

(***************************************************************************)
(* Program constants.                                                      *)
(***************************************************************************)
max_total_runs_short == 6 - 1

max_total_runs == 6
max_concurrent_runs == 2
weeks == 6

VARIABLES
  nb,                  \* the notebook of this session
  pc,                  \* the next code cell, or "done" / "failed"
  executed,            \* the code cells run so far, in order
  raised,              \* every exception raised so far, with whether it was caught
  stdout,              \* what the compute-target and registration cells printed
  clusters,            \* workspace: names of the compute clusters that exist
  image_build_compute, \* workspace: the image build compute setting ("" = unset)
  datasets,            \* workspace: registered datasets, name -> latest version
  datastore,           \* workspace: target paths uploaded to the default datastore
  models,              \* workspace: registered versions of diabetes_model
  cluster_var,         \* kernel: inference_cluster / training_cluster ("" = undefined)
  ds_vars,             \* kernel: the dataset variables, name -> [name, version]
  run,                 \* the inline training run (experiment.start_logging())
  hd,                  \* the hyperdrive run: status and child runs
  best,                \* kernel: best_run and best_run_metrics
  aci_service,         \* the deployed web service
  requests,            \* the scoring requests the notebook has posted
  file_paths,          \* kernel: the simulated target files: the date in each
                       \* name, and (history) the day it was written on
  monitor,             \* the data drift monitor and its backfill
  pipeline,            \* the batch pipeline: step defined, run submitted, output read
  batch,               \* the batch_diabetes.py process: global model, last call
  score                \* the score_diabetes.py process: global model, run position

nbVars == <<nb, pc, executed, raised, stdout>>
wsVars == <<clusters, image_build_compute, datasets, datastore, models>>
kernelVars == <<cluster_var, ds_vars, run, hd, best, aci_service, requests,
                file_paths, monitor, pipeline>>
scriptVars == <<batch, score>>
vars == <<nbVars, wsVars, kernelVars, scriptVars>>

(***************************************************************************)
(* The notebooks: their code cells in file order.                          *)
(***************************************************************************)
Notebooks == {"batch", "telemetry", "hyper", "drift"}

batch_cells ==
  <<"connect", "train", "simulate", "compute", "folder", "writefile",
    "environment", "configure", "submit", "retrieve">>

telemetry_cells_request_first ==
  <<"connect", "train", "folder", "writefile", "conda", "deploy",
    "endpoint", "request", "insights">>

telemetry_cells ==
  <<"connect", "train", "folder", "writefile", "conda", "deploy",
    "insights", "endpoint", "request">>

hyper_cells ==
  <<"connect", "dataset", "folder", "writefile", "compute", "hyperdrive",
    "best", "register">>

drift_cells ==
  <<"pipshow", "connect", "baseline", "target", "compute", "monitor",
    "backfill", "analyze">>

Cells(n) ==
  CASE n = "batch" -> batch_cells
    [] n = "telemetry" -> telemetry_cells
    [] n = "hyper" -> hyper_cells
    [] n = "drift" -> drift_cells

IndexOf(s, c) == CHOOSE i \in 1..Len(s) : s[i] = c

\* The cell that runs after cell c of notebook n ("done" after the last one).
NextCell(n, c) ==
  LET s == Cells(n)
      i == IndexOf(s, c)
  IN IF i = Len(s) THEN "done" ELSE s[i + 1]

\* The name each notebook gives to the cluster it looks up.
cluster_name(n) == IF n = "batch" THEN "acaml-****" ELSE "ac-aml-cluster"

(***************************************************************************)
(* Values.                                                                 *)
(***************************************************************************)
Metrics == 1..MaxMetric
Labels == 3             \* the fitted models predict class labels 0..Labels-1
NoModel == [version |-> 0]
NoDataset == [name |-> "", version |-> 0, defined |-> FALSE]
NoRun == [status |-> "none", Accuracy |-> 0, AUC |-> 0, files |-> {}]
DatasetNames == {"batch-data", "diabetes dataset", "diabetes baseline",
                 "diabetes target"}
DatasetVars == {"batch_data_set", "data_set", "tab_data_set",
                "baseline_data_set", "target_data_set"}

\* A version of diabetes_model that an earlier session registered.
PriorModel(v) ==
  [name |-> "diabetes_model", version |-> v, context |-> "Prior",
   AUC |-> 1, Accuracy |-> 1, source |-> 0]


(***************************************************************************)
(* The state a session starts in: a notebook about to run its first cell,  *)
(* against a workspace in which the cluster may or may not exist, the      *)
(* datasets may have been registered by an earlier session (in the two     *)
(* notebooks that register under a name they may find taken), and up to    *)
(* MaxPrior versions of diabetes_model are registered.                     *)
(***************************************************************************)
Init ==
  /\ nb \in Notebooks
  /\ pc = Cells(nb)[1]
  /\ executed = << >>
  /\ raised = << >>
  /\ stdout = << >>
  /\ clusters \in SUBSET {cluster_name(nb)}
  /\ image_build_compute = ""
  /\ \E prior \in IF nb \in {"hyper", "drift"} THEN {0, 1} ELSE {0} :
       datasets = [d \in DatasetNames |-> prior]
  /\ datastore = {}
  /\ \E k \in 0..MaxPrior : models = [i \in 1..k |-> PriorModel(i)]
  /\ cluster_var = ""
  /\ ds_vars = [v \in DatasetVars |-> NoDataset]
  /\ run = NoRun
  /\ hd = [status |-> "none", children |-> << >>]
  /\ best = [run |-> 0, AUC |-> 0, Accuracy |-> 0]
  /\ aci_service = [state |-> "none", app_insights |-> FALSE]
  /\ requests = << >>
  /\ file_paths = << >>
  /\ monitor = [created |-> FALSE, baseline |-> NoDataset, target |-> NoDataset,
                compute_target |-> "", backfilled |-> FALSE]
  /\ pipeline = [step |-> FALSE, submitted |-> FALSE, downloaded |-> FALSE]
  /\ batch = [model |-> NoModel, call |-> "none", mini_batch |-> << >>,
              raised |-> "", result |-> << >>]
  /\ score = [model |-> NoModel, pc |-> "idle", last |-> "none",
              raw_data |-> [json |-> FALSE, has_data |-> FALSE, data |-> << >>],
              data |-> << >>, predictions |-> << >>, predicted |-> FALSE,
              log |-> << >>, raised |-> "", response |-> << >>]

(***************************************************************************)
(* Running a cell.  At: the session is about to run cell c of notebook n.  *)
(* Finish: the cell completed, the next cell is up.  Stop: the cell raised *)
(* an exception nothing catches, which ends the session.                   *)
(***************************************************************************)
At(n, c) == nb = n /\ pc = c

Exc(c, call, exc, caught) ==
  [cell |-> c, call |-> call, exc |-> exc, caught |-> caught]

Finish(c) ==
  /\ pc' = NextCell(nb, c)
  /\ executed' = Append(executed, c)
  /\ nb' = nb

Stop(c) ==
  /\ pc' = "failed"
  /\ executed' = Append(executed, c)
  /\ nb' = nb

\* A cell that makes no platform call (local files only).
LocalCell(n, c) ==
  /\ At(n, c)
  /\ Finish(c)
  /\ UNCHANGED <<raised, stdout, wsVars, kernelVars, scriptVars>>

\* ws = Workspace.from_config(): the first platform call of every notebook.
connect ==
  /\ pc = "connect"
  /\ \/ Finish("connect") /\ UNCHANGED raised
     \/ /\ Stop("connect")
        /\ raised' = Append(raised, Exc("connect", "Workspace.from_config",
                                        "UserErrorException", FALSE))
  /\ UNCHANGED <<stdout, wsVars, kernelVars, scriptVars>>

\* os.makedirs(experiment_folder, exist_ok=True)
folder ==
  /\ nb \in {"batch", "telemetry", "hyper"}
  /\ LocalCell(nb, "folder")

\* %%writefile: the entry script (or training script) is written to the folder.
writefile ==
  /\ nb \in {"batch", "telemetry", "hyper"}
  /\ LocalCell(nb, "writefile")

(***************************************************************************)
(* The compute-target cell (batch, hyper, drift).                          *)
(***************************************************************************)
\* Whether the try block also calls ws.update(image_build_compute=cluster_name).
calls_ws_update(n) == n \in {"batch", "hyper"}

\* The clusters of the workspace after the except ComputeTargetException block.
except_ComputeTargetException_creates(cl, name) == cl \cup {name}

except_ComputeTargetException(cl, name) == cl

compute ==
  /\ nb \in {"batch", "hyper", "drift"}
  /\ pc = "compute"
  /\ LET name == cluster_name(nb) IN
     \/ \* the lookup finds the cluster
        /\ name \in clusters
        /\ cluster_var' = name
        /\ clusters' = clusters
        /\ \/ \* ws.update succeeds (or is not called): the cell prints and ends
              /\ image_build_compute' =
                   IF calls_ws_update(nb) THEN name ELSE image_build_compute
              /\ stdout' = Append(stdout, "Found existing cluster")
              /\ Finish("compute")
              /\ UNCHANGED raised
           \/ \* ws.update raises: not a ComputeTargetException, so not caught
              /\ calls_ws_update(nb)
              /\ Stop("compute")
              /\ raised' = Append(raised, Exc("compute", "ws.update",
                                              "WorkspaceException", FALSE))
              /\ UNCHANGED <<image_build_compute, stdout>>
     \/ \* the lookup raises ComputeTargetException: no cluster of that name
        /\ name \notin clusters
        /\ clusters' = except_ComputeTargetException(clusters, name)
        /\ stdout' = Append(stdout, "There is no existing cluster by that name.")
        /\ raised' = Append(raised, Exc("compute", "ComputeTarget",
                                        "ComputeTargetException", TRUE))
        /\ Finish("compute")
        /\ UNCHANGED <<cluster_var, image_build_compute>>
     \/ \* the lookup fails for another reason (the service cannot be reached)
        /\ Stop("compute")
        /\ raised' = Append(raised, Exc("compute", "ComputeTarget",
                                        "ServiceException", FALSE))
        /\ UNCHANGED <<cluster_var, clusters, image_build_compute, stdout>>
  /\ UNCHANGED <<datasets, datastore, models, ds_vars, run, hd, best,
                 aci_service, requests, file_paths, monitor, pipeline,
                 scriptVars>>


(***************************************************************************)
(* Dataset registration: <dataset>.register(workspace=ws, name=...,        *)
(* create_new_version=True).                                               *)
(***************************************************************************)
\* Whether notebook n wraps the register call in try / except Exception.
register_guarded_everywhere(n) == TRUE

register_guarded(n) == n \in {"batch", "telemetry", "hyper"}

dataset_obj(name, version) == [name |-> name, version |-> version, defined |-> TRUE]

\* The workspace's datasets after a successful registration under `name`.
registered(ds, name) == [ds EXCEPT ![name] = @ + 1]

\* A cell whose last platform call registers dataset `name`, kept in kernel
\* variable `var`; the dataset object exists, unregistered, before the call.
RegisterLast(c, var, name) ==
  \/ \* the registration succeeds
     /\ datasets' = registered(datasets, name)
     /\ ds_vars' = [ds_vars EXCEPT ![var] = dataset_obj(name, datasets'[name])]
     /\ stdout' = Append(stdout, "registered")
     /\ raised' = raised
     /\ Finish(c)
  \/ \* it raises inside try / except Exception: print(ex), the cell goes on
     /\ register_guarded(nb)
     /\ datasets' = datasets
     /\ ds_vars' = [ds_vars EXCEPT ![var] = dataset_obj(name, 0)]
     /\ stdout' = Append(stdout, "print(ex)")
     /\ raised' = Append(raised, Exc(c, "Dataset.register", "Exception", TRUE))
     /\ Finish(c)
  \/ \* it raises and nothing catches it
     /\ ~register_guarded(nb)
     /\ datasets' = datasets
     /\ ds_vars' = [ds_vars EXCEPT ![var] = dataset_obj(name, 0)]
     /\ stdout' = stdout
     /\ raised' = Append(raised, Exc(c, "Dataset.register", "Exception", FALSE))
     /\ Stop(c)

(***************************************************************************)
(* Inline training (batch and telemetry notebooks): the platform calls of  *)
(* the train-and-register code, in the order the cell makes them.          *)
(***************************************************************************)
train_steps_complete_early ==
  <<"experiment.start_logging", "run.log Accuracy", "run.complete",
    "run.log AUC", "run.upload_file", "run.register_model">>

train_steps ==
  <<"experiment.start_logging", "run.log Accuracy", "run.log AUC",
    "run.upload_file", "run.complete", "run.register_model">>

model_file == "outputs/diabetes_model.pkl"

\* The run after one more call; acc and auc are what the fitted model scored
\* on the test split.
run_step(r, step, acc, auc) ==
  CASE step = "experiment.start_logging" ->
         [NoRun EXCEPT !.status = "Running"]
    [] step = "run.log Accuracy" -> [r EXCEPT !.Accuracy = acc]
    [] step = "run.log AUC" -> [r EXCEPT !.AUC = auc]
    [] step = "run.upload_file" -> [r EXCEPT !.files = @ \cup {model_file}]
    [] step = "run.complete" -> [r EXCEPT !.status = "Completed"]
    [] step = "run.register_model" -> r

RECURSIVE run_after(_, _, _)
\* The run after the first n calls of train_steps.
run_after(n, acc, auc) ==
  IF n = 0 THEN NoRun
  ELSE run_step(run_after(n - 1, acc, auc), train_steps[n], acc, auc)

\* run.register_model(model_path=..., model_name='diabetes_model', tags=...,
\* properties={'AUC': run.get_metrics()['AUC'], 'Accuracy': ...}): the model
\* version it adds to the workspace; src is 0 for the inline run and the
\* child run's number for a hyperdrive child.
register_model(r, version, context, src) ==
  [name |-> "diabetes_model", version |-> version, context |-> context,
   AUC |-> r.AUC, Accuracy |-> r.Accuracy, source |-> src]

\* The train-and-register code after `before` (exceptions already raised in
\* the cell): `done` calls succeed and the next one, if any, raises.
TrainPart(before) ==
  \E acc \in Metrics, auc \in Metrics, done \in 0..Len(train_steps) :
    /\ run' = run_after(done, acc, auc)
    /\ IF done = Len(train_steps)
       THEN /\ models' = Append(models, register_model(run', Len(models) + 1,
                                                       "Inline Training", 0))
            /\ raised' = before
            /\ Finish("train")
       ELSE /\ models' = models
            /\ raised' = Append(before, Exc("train", train_steps[done + 1],
                                            "ServiceException", FALSE))
            /\ Stop("train")

(***************************************************************************)
(* The batch notebook (src/unnamed/part_000).                              *)
(***************************************************************************)
batch_train ==
  /\ At("batch", "train")
  /\ TrainPart(raised)
  /\ UNCHANGED <<stdout, clusters, image_build_compute, datasets, datastore,
                 cluster_var, ds_vars, hd, best, aci_service, requests,
                 file_paths, monitor, pipeline, scriptVars>>

\* Simulate sample data: upload the files, then register the 'batch-data' dataset.
batch_simulate ==
  /\ At("batch", "simulate")
  /\ \/ \* default_ds.upload raises
        /\ Stop("simulate")
        /\ raised' = Append(raised, Exc("simulate", "default_ds.upload",
                                        "ServiceException", FALSE))
        /\ UNCHANGED <<stdout, datasets, datastore, ds_vars>>
     \/ /\ datastore' = datastore \cup {"batch-data"}
        /\ RegisterLast("simulate", "batch_data_set", "batch-data")
  /\ UNCHANGED <<clusters, image_build_compute, models, cluster_var, run, hd,
                 best, aci_service, requests, file_paths, monitor, pipeline,
                 scriptVars>>

\* Environment(name='batch_environment') with its conda dependencies.
batch_environment == LocalCell("batch", "environment")

\* ParallelRunConfig(compute_target=inference_cluster, ...) and
\* ParallelRunStep(inputs=[batch_data_set.as_named_input(...)], ...).
batch_configure ==
  /\ At("batch", "configure")
  /\ IF cluster_var = ""
     THEN \* inference_cluster was never assigned
          /\ Stop("configure")
          /\ raised' = Append(raised, Exc("configure", "inference_cluster",
                                          "NameError", FALSE))
          /\ UNCHANGED pipeline
     ELSE /\ Finish("configure")
          /\ pipeline' = [pipeline EXCEPT !.step = TRUE]
          /\ UNCHANGED raised
  /\ UNCHANGED <<stdout, wsVars, cluster_var, ds_vars, run, hd, best,
                 aci_service, requests, file_paths, monitor, scriptVars>>

\* Experiment(ws, 'mslearn-diabetes-batch').submit(pipeline)
batch_submit ==
  /\ At("batch", "submit")
  /\ \/ /\ Finish("submit")
        /\ pipeline' = [pipeline EXCEPT !.submitted = TRUE]
        /\ UNCHANGED raised
     \/ /\ Stop("submit")
        /\ raised' = Append(raised, Exc("submit", "Experiment.submit",
                                        "ServiceException", FALSE))
        /\ UNCHANGED pipeline
  /\ UNCHANGED <<stdout, wsVars, cluster_var, ds_vars, run, hd, best,
                 aci_service, requests, file_paths, monitor, scriptVars>>

\* prediction_output.download(local_path='diabetes-results') and read the file.
batch_retrieve ==
  /\ At("batch", "retrieve")
  /\ \/ /\ Finish("retrieve")
        /\ pipeline' = [pipeline EXCEPT !.downloaded = TRUE]
        /\ UNCHANGED raised
     \/ /\ Stop("retrieve")
        /\ raised' = Append(raised, Exc("retrieve", "prediction_output.download",
                                        "ServiceException", FALSE))
        /\ UNCHANGED pipeline
  /\ UNCHANGED <<stdout, wsVars, cluster_var, ds_vars, run, hd, best,
                 aci_service, requests, file_paths, monitor, scriptVars>>


(***************************************************************************)
(* batch_diabetes.py, the entry script of the batch pipeline step.         *)
(***************************************************************************)
\* The files a mini-batch may name: paths as their '/'-separated components.
BatchFiles ==
  {<<"batch-data", "1.csv">>, <<"tmp", "batch-data", "2.csv">>,
   <<"batch-data", "gone.csv">>}

RECURSIVE SeqsUpTo(_, _)
\* The sequences over S of length at most n.
SeqsUpTo(S, n) ==
  IF n = 0 THEN {<< >>}
  ELSE LET shorter == SeqsUpTo(S, n - 1)
       IN shorter \cup {Append(q, x) : q \in shorter, x \in S}

MiniBatches == SeqsUpTo(BatchFiles, MaxBatch)

\* os.path.basename(f): what follows the last '/'.
basename(f) == f[Len(f)]

\* Whether np.genfromtxt(f, delimiter=',') can read f, and the row it reads.
readable(f) == basename(f) # "gone.csv"

genfromtxt(f) ==
  CASE basename(f) = "1.csv" -> 1
    [] basename(f) = "2.csv" -> 2
    [] OTHER -> 0

\* model.predict on one row: a class label, fixed by the fitted model (the
\* registered version) and the row.
predict(m, row) == (row + m.version) % Labels

\* "{}: {}".format(os.path.basename(f), prediction[0])
format_entry_dirname(f, prediction) == <<f[1], ": ", prediction>>

format_entry(f, prediction) == <<basename(f), ": ", prediction>>

\* Model.get_model_path('diabetes_model') and joblib.load: the latest
\* registered version when there is one.
load_model(reg) ==
  IF reg = << >> THEN NoModel
  ELSE [version |-> reg[Len(reg)].version]

RECURSIVE run_loop(_, _, _)
\* for f in mini_batch: read, predict with the global model, append.
\* The outcome is the exception raised ("" when none) and the value returned.
run_loop(m, mini_batch, resultList) ==
  IF mini_batch = << >> THEN [raised |-> "", value |-> resultList]
  ELSE LET f == Head(mini_batch) IN
       IF ~readable(f) THEN [raised |-> "OSError", value |-> << >>]
       ELSE IF m = NoModel THEN [raised |-> "NameError", value |-> << >>]
       ELSE run_loop(m, Tail(mini_batch),
                     Append(resultList, format_entry(f, predict(m, genfromtxt(f)))))

\* def run(mini_batch) of batch_diabetes.py
batch_diabetes_run(m, mini_batch) == run_loop(m, mini_batch, << >>)

\* A call of init() of batch_diabetes.py by the pipeline step.
batch_init ==
  /\ pipeline.submitted
  /\ batch' = [batch EXCEPT
                 !.call = "init",
                 !.model = IF models = << >> THEN @ ELSE load_model(models),
                 !.raised = IF models = << >> THEN "ModelNotFound" ELSE "",
                 !.mini_batch = << >>,
                 !.result = << >>]
  /\ UNCHANGED <<nbVars, wsVars, kernelVars, score>>

\* A run that loads the model again on every call.
batch_run_reloading ==
  /\ pipeline.submitted
  /\ \E mini_batch \in MiniBatches :
       LET out == batch_diabetes_run(load_model(models), mini_batch) IN
       batch' = [batch EXCEPT !.call = "run", !.mini_batch = mini_batch,
                              !.model = load_model(models),
                              !.raised = out.raised, !.result = out.value]
  /\ UNCHANGED <<nbVars, wsVars, kernelVars, score>>

\* A call of run(mini_batch) by the pipeline step.
batch_run ==
  /\ pipeline.submitted
  /\ \E mini_batch \in MiniBatches :
       LET out == batch_diabetes_run(batch.model, mini_batch) IN
       batch' = [batch EXCEPT !.call = "run", !.mini_batch = mini_batch,
                              !.raised = out.raised, !.result = out.value]
  /\ UNCHANGED <<nbVars, wsVars, kernelVars, score>>

(***************************************************************************)
(* score_diabetes.py, the entry script of the web service.  A call of run  *)
(* advances statement by statement: score.pc names the statement that is   *)
(* next ("idle" between calls), score.last how the last call ended.        *)
(***************************************************************************)
\* Rows of a request; BadRow stands for a row model.predict rejects (wrong
\* number of features).
BadRow == -1

ScoreRows == {BadRow, 1, 2}

\* The request bodies: text that is not JSON, a JSON object without 'data',
\* and JSON objects whose 'data' is a list of at most MaxRows rows.
RawData ==
  {[json |-> FALSE, has_data |-> FALSE, data |-> << >>],
   [json |-> TRUE, has_data |-> FALSE, data |-> << >>]}
  \cup {[json |-> TRUE, has_data |-> TRUE, data |-> d] :
          d \in SeqsUpTo(ScoreRows, MaxRows)}

\* json.dumps of a list of strings: the text of a JSON array.
json_dumps(list) == [array |-> list]

classnames_swapped == <<"diabetic", "not-diabetic">>

classnames == <<"not-diabetic", "diabetic">>

\* Python's list[i]: i may count from the end; outside -len..len-1 it raises.
in_range(list, i) == -Len(list) <= i /\ i < Len(list)

python_index(list, i) == IF i >= 0 THEN list[i + 1] ELSE list[Len(list) + i + 1]

\* model.predict(np_data): it raises on an empty array and on a malformed row.
predict_raises(data) ==
  data = << >> \/ \E i \in 1..Len(data) : data[i] = BadRow

predict_all(m, data) == [i \in 1..Len(data) |-> predict(m, data[i])]

\* The call fields of the process when a new call of run starts.
NewCall(raw_data) ==
  [score EXCEPT !.raw_data = raw_data, !.data = << >>, !.predictions = << >>,
                !.predicted = FALSE, !.log = << >>, !.raised = "",
                !.response = << >>]

Raise(s, exc) == [s EXCEPT !.pc = "idle", !.last = "raised", !.raised = exc]

Deployed == aci_service.state = "Healthy"

\* def init() of score_diabetes.py
score_init ==
  /\ Deployed
  /\ score.pc = "idle"
  /\ score' = IF models = << >>
              THEN [NewCall(score.raw_data) EXCEPT !.last = "init",
                                                   !.raised = "ModelNotFound"]
              ELSE [NewCall(score.raw_data) EXCEPT !.last = "init",
                                                   !.model = load_model(models)]
  /\ UNCHANGED <<nbVars, wsVars, kernelVars, batch>>

\* run(raw_data): data = json.loads(raw_data)['data']; np_data = np.array(data)
score_run_parse ==
  /\ Deployed
  /\ score.pc = "idle"
  /\ \E raw_data \in RawData :
       score' = IF ~raw_data.json
                THEN Raise(NewCall(raw_data), "JSONDecodeError")
                ELSE IF ~raw_data.has_data
                THEN Raise(NewCall(raw_data), "KeyError")
                ELSE [NewCall(raw_data) EXCEPT !.pc = "predict",
                                               !.data = raw_data.data]
  /\ UNCHANGED <<nbVars, wsVars, kernelVars, batch>>

\* predictions = model.predict(np_data)
score_run_predict ==
  /\ score.pc = "predict"
  /\ score' = IF score.model = NoModel THEN Raise(score, "NameError")
              ELSE IF predict_raises(score.data) THEN Raise(score, "ValueError")
              ELSE [score EXCEPT !.pc = "log", !.predicted = TRUE,
                                 !.predictions = predict_all(score.model, score.data)]
  /\ UNCHANGED <<nbVars, wsVars, kernelVars, batch>>

\* A run that goes on to the class names without printing.
score_run_log_dropped ==
  /\ score.pc = "log"
  /\ score' = [score EXCEPT !.pc = "map"]
  /\ UNCHANGED <<nbVars, wsVars, kernelVars, batch>>

\* log_text = 'Data:' + str(data) + ' - Predictions:' + str(predictions)
\* print(log_text)
score_run_log ==
  /\ score.pc = "log"
  /\ score' = [score EXCEPT !.pc = "map",
                            !.log = <<"Data:", score.data, " - Predictions:",
                                      score.predictions>>]
  /\ UNCHANGED <<nbVars, wsVars, kernelVars, batch>>

\* for prediction in predictions: predicted_classes.append(classnames[prediction])
\* return json.dumps(predicted_classes)
score_run_return ==
  /\ score.pc = "map"
  /\ LET p == score.predictions IN
     score' = IF \E i \in 1..Len(p) : ~in_range(classnames, p[i])
              THEN Raise(score, "IndexError")
              ELSE [score EXCEPT
                      !.pc = "idle", !.last = "returned",
                      !.response = json_dumps([i \in 1..Len(p) |->
                                                 python_index(classnames, p[i])])]
  /\ UNCHANGED <<nbVars, wsVars, kernelVars, batch>>

\* What the deployed service answers to a request: run as a whole, on the
\* model its init loaded when the container started.
service_response(m, raw_data) ==
  IF ~raw_data.json \/ ~raw_data.has_data \/ m = NoModel
     \/ predict_raises(raw_data.data)
     \/ \E i \in 1..Len(raw_data.data) :
          ~in_range(classnames, predict(m, raw_data.data[i]))
  THEN [status_code |-> 502, body |-> json_dumps(<< >>)]
  ELSE [status_code |-> 200,
        body |-> json_dumps([i \in 1..Len(raw_data.data) |->
                   python_index(classnames, predict(m, raw_data.data[i]))])]

(***************************************************************************)
(* The telemetry notebook (src/unnamed/part_001).                          *)
(***************************************************************************)
\* Prepare a model for deployment: upload the data files, register the
\* 'diabetes dataset' (guarded), then train and register the model.
telemetry_train ==
  /\ At("telemetry", "train")
  /\ \/ \* default_ds.upload_files raises
        /\ Stop("train")
        /\ raised' = Append(raised, Exc("train", "default_ds.upload_files",
                                        "ServiceException", FALSE))
        /\ UNCHANGED <<stdout, datasets, datastore, models, ds_vars, run>>
     \/ \* the dataset is registered
        /\ datastore' = datastore \cup {"diabetes-data/"}
        /\ datasets' = registered(datasets, "diabetes dataset")
        /\ ds_vars' = [ds_vars EXCEPT !["data_set"] =
                         dataset_obj("diabetes dataset", datasets'["diabetes dataset"])]
        /\ stdout' = stdout
        /\ TrainPart(raised)
     \/ \* register raises inside try / except Exception: print(ex) and go on
        /\ register_guarded(nb)
        /\ datastore' = datastore \cup {"diabetes-data/"}
        /\ datasets' = datasets
        /\ ds_vars' = [ds_vars EXCEPT !["data_set"] = dataset_obj("diabetes dataset", 0)]
        /\ stdout' = Append(stdout, "print(ex)")
        /\ TrainPart(Append(raised, Exc("train", "Dataset.register", "Exception", TRUE)))
  /\ UNCHANGED <<clusters, image_build_compute, cluster_var, hd, best,
                 aci_service, requests, file_paths, monitor, pipeline, scriptVars>>

\* CondaDependencies() written to diabetes_env.yml
telemetry_conda == LocalCell("telemetry", "conda")

\* aci_service = Model.deploy(...); aci_service.wait_for_deployment(show_output=True)
telemetry_deploy ==
  /\ At("telemetry", "deploy")
  /\ \/ /\ Finish("deploy")
        /\ aci_service' = [aci_service EXCEPT !.state = "Healthy"]
        /\ UNCHANGED raised
     \/ /\ Stop("deploy")
        /\ aci_service' = aci_service
        /\ raised' = Append(raised, Exc("deploy", "Model.deploy",
                                        "WebserviceException", FALSE))
     \/ /\ Stop("deploy")
        /\ aci_service' = [aci_service EXCEPT !.state = "Failed"]
        /\ raised' = Append(raised, Exc("deploy", "wait_for_deployment",
                                        "WebserviceException", FALSE))
  /\ UNCHANGED <<stdout, wsVars, cluster_var, ds_vars, run, hd, best, requests,
                 file_paths, monitor, pipeline, scriptVars>>

\* aci_service.update(enable_app_insights=True)
enable_app_insights == TRUE

telemetry_insights ==
  /\ At("telemetry", "insights")
  /\ \/ /\ Finish("insights")
        /\ aci_service' = [aci_service EXCEPT !.app_insights = enable_app_insights]
        /\ UNCHANGED raised
     \/ /\ Stop("insights")
        /\ aci_service' = aci_service
        /\ raised' = Append(raised, Exc("insights", "aci_service.update",
                                        "WebserviceException", FALSE))
  /\ UNCHANGED <<stdout, wsVars, cluster_var, ds_vars, run, hd, best, requests,
                 file_paths, monitor, pipeline, scriptVars>>

\* endpoint = aci_service.scoring_uri
telemetry_endpoint == LocalCell("telemetry", "endpoint")

\* x_new: the two patient rows the notebook sends.
x_new == <<2, 1>>

input_json == [json |-> TRUE, has_data |-> TRUE, data |-> x_new]

\* predictions = requests.post(endpoint, input_json, headers = headers)
telemetry_request ==
  /\ At("telemetry", "request")
  /\ \/ \* the service answers: 200 with the predicted classes, or an error status
        /\ Finish("request")
        /\ requests' = Append(requests,
                         [app_insights |-> aci_service.app_insights,
                          state |-> aci_service.state,
                          response |-> service_response(load_model(models), input_json)])
        /\ UNCHANGED raised
     \/ \* the endpoint cannot be reached
        /\ Stop("request")
        /\ requests' = Append(requests,
                         [app_insights |-> aci_service.app_insights,
                          state |-> aci_service.state,
                          response |-> [status_code |-> 0, body |-> json_dumps(<< >>)]])
        /\ raised' = Append(raised, Exc("request", "requests.post",
                                        "ConnectionError", FALSE))
  /\ UNCHANGED <<stdout, wsVars, cluster_var, ds_vars, run, hd, best,
                 aci_service, file_paths, monitor, pipeline, scriptVars>>

TelemetryNext ==
  \/ telemetry_train
  \/ telemetry_conda
  \/ telemetry_deploy
  \/ telemetry_insights
  \/ telemetry_endpoint
  \/ telemetry_request

(***************************************************************************)
(* The hyperparameter notebook (src/unnamed/part_002).                     *)
(***************************************************************************)
\* Create the diabetes dataset: only when the workspace has none of that name.
hyper_dataset ==
  /\ At("hyper", "dataset")
  /\ \/ \* 'diabetes dataset' not in ws.datasets, and upload_files raises
        /\ datasets["diabetes dataset"] = 0
        /\ Stop("dataset")
        /\ raised' = Append(raised, Exc("dataset", "default_ds.upload_files",
                                        "ServiceException", FALSE))
        /\ UNCHANGED <<stdout, datasets, datastore, ds_vars>>
     \/ \* not registered yet: upload, then register (guarded)
        /\ datasets["diabetes dataset"] = 0
        /\ datastore' = datastore \cup {"diabetes-data/"}
        /\ RegisterLast("dataset", "tab_data_set", "diabetes dataset")
     \/ \* already registered
        /\ datasets["diabetes dataset"] > 0
        /\ stdout' = Append(stdout, "Dataset already registered.")
        /\ Finish("dataset")
        /\ UNCHANGED <<raised, datasets, datastore, ds_vars>>
  /\ UNCHANGED <<clusters, image_build_compute, models, cluster_var, run, hd,
                 best, aci_service, requests, file_paths, monitor, pipeline,
                 scriptVars>>

\* GridParameterSampling: '--learning_rate': choice(0.01, 0.1, 1.0) and
\* '--n_estimators': choice(10, 100).  Learning rates are in hundredths.
learning_rate == <<1, 10, 100>>

n_estimators == <<10, 100>>

\* The grid in the order the sampler walks it.
Grid ==
  [i \in 1..(Len(learning_rate) * Len(n_estimators)) |->
     <<learning_rate[((i - 1) \div Len(n_estimators)) + 1],
       n_estimators[((i - 1) % Len(n_estimators)) + 1]>>]

\* The number of child runs the experiment creates: max_total_runs, or fewer
\* when the grid is smaller.
total_runs == IF max_total_runs < Len(Grid) THEN max_total_runs ELSE Len(Grid)

Running(children) == {i \in 1..Len(children) : children[i].status = "Running"}

\* The first part of the hyperdrive cell: the configuration is built and the
\* experiment submitted; run.wait_for_completion() then blocks.
hyper_submit ==
  /\ At("hyper", "hyperdrive")
  /\ hd.status = "none"
  /\ \/ \* ws.datasets.get("diabetes dataset") is None
        /\ datasets["diabetes dataset"] = 0
        /\ Stop("hyperdrive")
        /\ raised' = Append(raised, Exc("hyperdrive", "diabetes_ds.as_named_input",
                                        "AttributeError", FALSE))
        /\ UNCHANGED hd
     \/ \* training_cluster was never assigned
        /\ datasets["diabetes dataset"] > 0
        /\ cluster_var = ""
        /\ Stop("hyperdrive")
        /\ raised' = Append(raised, Exc("hyperdrive", "training_cluster",
                                        "NameError", FALSE))
        /\ UNCHANGED hd
     \/ \* experiment.submit raises
        /\ datasets["diabetes dataset"] > 0
        /\ cluster_var # ""
        /\ Stop("hyperdrive")
        /\ raised' = Append(raised, Exc("hyperdrive", "experiment.submit",
                                        "ServiceException", FALSE))
        /\ UNCHANGED hd
     \/ \* the experiment is submitted
        /\ datasets["diabetes dataset"] > 0
        /\ cluster_var # ""
        /\ hd' = [hd EXCEPT !.status = "Running"]
        /\ UNCHANGED <<nb, pc, executed, raised>>
  /\ UNCHANGED <<stdout, wsVars, cluster_var, ds_vars, run, best, aci_service,
                 requests, file_paths, monitor, pipeline, scriptVars>>

\* The platform starts the next child run, with the next point of the grid.
hd_launch ==
  /\ hd.status = "Running"
  /\ Len(hd.children) < total_runs
  /\ Cardinality(Running(hd.children)) < max_concurrent_runs
  /\ hd' = [hd EXCEPT !.children =
              Append(@, [params |-> Grid[Len(hd.children) + 1],
                         status |-> "Running", AUC |-> 0, Accuracy |-> 0])]
  /\ UNCHANGED <<nbVars, wsVars, cluster_var, ds_vars, run, best, aci_service,
                 requests, file_paths, monitor, pipeline, scriptVars>>

\* The accuracy on the test split of the model that child run i fitted,
\* given its AUC there.  Both are computed from the one fitted model; the
\* table is chosen so that Accuracy can differ from AUC and so that child
\* runs of equal AUC can differ in Accuracy.
accuracy_of(i, auc) == ((i + auc) % MaxMetric) + 1

\* A child run ends: diabetes_training.py logged Accuracy and AUC, saved the
\* model and completed, or it failed before it logged a metric.
hd_child_end ==
  /\ hd.status = "Running"
  /\ \E i \in Running(hd.children) :
       \/ \E auc \in Metrics :
            hd' = [hd EXCEPT !.children[i] =
                     [@ EXCEPT !.status = "Completed", !.AUC = auc,
                               !.Accuracy = accuracy_of(i, auc)]]
       \/ hd' = [hd EXCEPT !.children[i] = [@ EXCEPT !.status = "Failed"]]
  /\ UNCHANGED <<nbVars, wsVars, cluster_var, ds_vars, run, best, aci_service,
                 requests, file_paths, monitor, pipeline, scriptVars>>

\* The experiment is over: every child run it was to create has ended.
hd_complete ==
  /\ hd.status = "Running"
  /\ Len(hd.children) = total_runs
  /\ Running(hd.children) = {}
  /\ hd' = [hd EXCEPT !.status = "Completed"]
  /\ UNCHANGED <<nbVars, wsVars, cluster_var, ds_vars, run, best, aci_service,
                 requests, file_paths, monitor, pipeline, scriptVars>>

\* run.wait_for_completion() returns once the experiment is over; it raises
\* when the service cannot be polled.
hyper_wait ==
  /\ At("hyper", "hyperdrive")
  /\ \/ /\ hd.status = "Completed"
        /\ Finish("hyperdrive")
        /\ UNCHANGED raised
     \/ /\ hd.status = "Running"
        /\ Stop("hyperdrive")
        /\ raised' = Append(raised, Exc("hyperdrive", "run.wait_for_completion",
                                        "ServiceException", FALSE))
  /\ UNCHANGED <<stdout, wsVars, kernelVars, scriptVars>>

primary_metric_goal_minimize == "MINIMIZE"

primary_metric_goal == "MAXIMIZE"

\* The child runs that logged the primary metric (AUC).
Scored(children) == {i \in 1..Len(children) : children[i].AUC > 0}

\* run.get_best_run_by_primary_metric(): a scored child run no other scored
\* child run beats under the primary metric goal.
BestRuns(children) ==
  {i \in Scored(children) :
     \A j \in Scored(children) :
       IF primary_metric_goal = "MAXIMIZE"
       THEN children[j].AUC <= children[i].AUC
       ELSE children[j].AUC >= children[i].AUC}

\* best_run_metrics = best_run.get_metrics()
get_metrics(children, i) ==
  [AUC |-> children[i].AUC, Accuracy |-> children[i].Accuracy]

\* Find the best performing run.
hyper_best ==
  /\ At("hyper", "best")
  /\ \/ \* a platform call raises
        /\ Stop("best")
        /\ raised' = Append(raised, Exc("best", "run.get_best_run_by_primary_metric",
                                        "ServiceException", FALSE))
        /\ UNCHANGED best
     \/ \* no child run logged AUC: best_run is None
        /\ BestRuns(hd.children) = {}
        /\ Stop("best")
        /\ raised' = Append(raised, Exc("best", "best_run.get_metrics",
                                        "AttributeError", FALSE))
        /\ UNCHANGED best
     \/ \E i \in BestRuns(hd.children) :
          LET m == get_metrics(hd.children, i) IN
          /\ best' = [run |-> i, AUC |-> m.AUC, Accuracy |-> m.Accuracy]
          /\ Finish("best")
          /\ UNCHANGED raised
  /\ UNCHANGED <<stdout, wsVars, cluster_var, ds_vars, run, hd, aci_service,
                 requests, file_paths, monitor, pipeline, scriptVars>>

\* best_run.register_model(..., properties={'AUC': best_run_metrics['AUC'],
\* 'Accuracy': best_run_metrics['Accuracy']}), then Model.list(ws)
hyper_register ==
  /\ At("hyper", "register")
  /\ \/ /\ Stop("register")
        /\ models' = models
        /\ raised' = Append(raised, Exc("register", "best_run.register_model",
                                        "ServiceException", FALSE))
     \/ /\ models' = Append(models, register_model(best, Len(models) + 1,
                                                   "Hyperdrive", best.run))
        /\ \/ Finish("register") /\ UNCHANGED raised
           \/ /\ Stop("register")
              /\ raised' = Append(raised, Exc("register", "Model.list",
                                              "ServiceException", FALSE))
  /\ UNCHANGED <<stdout, clusters, image_build_compute, datasets, datastore,
                 kernelVars, scriptVars>>

HyperNext ==
  \/ hyper_dataset
  \/ hyper_submit
  \/ hd_launch
  \/ hd_child_end
  \/ hd_complete
  \/ hyper_wait
  \/ hyper_best
  \/ hyper_register

(***************************************************************************)
(* The data drift notebook (src/Hands-on Labs/Monitor the Environment in   *)
(* Azure Machine Learning-Drift.ipynb).                                    *)
(***************************************************************************)
\* !pip show azureml-datadrift
drift_pipshow == LocalCell("drift", "pipshow")

\* Create a baseline dataset: upload, then register 'diabetes baseline'.
drift_baseline ==
  /\ At("drift", "baseline")
  /\ \/ /\ Stop("baseline")
        /\ raised' = Append(raised, Exc("baseline", "default_ds.upload_files",
                                        "ServiceException", FALSE))
        /\ UNCHANGED <<stdout, datasets, datastore, ds_vars>>
     \/ /\ datastore' = datastore \cup {"diabetes-baseline"}
        /\ RegisterLast("baseline", "baseline_data_set", "diabetes baseline")
  /\ UNCHANGED <<clusters, image_build_compute, models, cluster_var, run, hd,
                 best, aci_service, requests, file_paths, monitor, pipeline,
                 scriptVars>>

\* weeknos = reversed(range(6))
weeknos == [i \in 1..weeks |-> weeks - i]

\* The dates (day numbers) today may be.
Days == {40, 41}

\* data_date = dt.date.today() - dt.timedelta(weeks=weekno)
data_date(today, weekno) == today - 7 * weekno

\* What dt.date.today() returns in each iteration of the loop: the clock is
\* read again every time round, and the day can change while the loop runs.
Clocks ==
  {t \in [1..weeks -> Days] : \A i \in 1..(weeks - 1) : t[i] <= t[i + 1]}

\* for weekno in weeknos: ... file_path = 'data/diabetes_{}.csv'.format(data_date);
\* data.to_csv(file_path); file_paths.append(file_path)
simulate_files(today) ==
  [i \in 1..Len(weeknos) |->
     [date |-> data_date(today[i], weeknos[i]), today |-> today[i]]]

\* Create a target dataset: write one file per week, upload them, register
\* 'diabetes target' with its timestamp column.
drift_target ==
  /\ At("drift", "target")
  /\ \E today \in Clocks : file_paths' = simulate_files(today)
  /\ \/ /\ Stop("target")
        /\ raised' = Append(raised, Exc("target", "default_ds.upload_files",
                                        "ServiceException", FALSE))
        /\ UNCHANGED <<stdout, datasets, datastore, ds_vars>>
     \/ /\ datastore' = datastore \cup {"diabetes-target"}
        /\ RegisterLast("target", "target_data_set", "diabetes target")
  /\ UNCHANGED <<clusters, image_build_compute, models, cluster_var, run, hd,
                 best, aci_service, requests, monitor, pipeline, scriptVars>>

\* The baseline and target arguments of create_from_datasets.
monitor_datasets_target_twice(v) == <<v["target_data_set"], v["target_data_set"]>>

monitor_datasets(v) == <<v["baseline_data_set"], v["target_data_set"]>>

\* monitor = DataDriftDetector.create_from_datasets(ws, 'mslearn-diabates-drift',
\*   baseline_data_set, target_data_set, compute_target=cluster_name, ...)
drift_monitor ==
  /\ At("drift", "monitor")
  /\ \/ /\ Finish("monitor")
        /\ monitor' = [monitor EXCEPT
                         !.created = TRUE,
                         !.baseline = monitor_datasets(ds_vars)[1],
                         !.target = monitor_datasets(ds_vars)[2],
                         !.compute_target = cluster_name(nb)]
        /\ UNCHANGED raised
     \/ /\ Stop("monitor")
        /\ monitor' = monitor
        /\ raised' = Append(raised, Exc("monitor", "DataDriftDetector.create_from_datasets",
                                        "ServiceException", FALSE))
  /\ UNCHANGED <<stdout, wsVars, cluster_var, ds_vars, run, hd, best,
                 aci_service, requests, file_paths, pipeline, scriptVars>>

\* backfill = monitor.backfill(...); backfill.wait_for_completion()
drift_backfill ==
  /\ At("drift", "backfill")
  /\ \/ /\ Finish("backfill")
        /\ monitor' = [monitor EXCEPT !.backfilled = TRUE]
        /\ UNCHANGED raised
     \/ /\ Stop("backfill")
        /\ monitor' = monitor
        /\ raised' = Append(raised, Exc("backfill", "monitor.backfill",
                                        "ServiceException", FALSE))
  /\ UNCHANGED <<stdout, wsVars, cluster_var, ds_vars, run, hd, best,
                 aci_service, requests, file_paths, pipeline, scriptVars>>

\* drift_metrics = backfill.get_metrics()
drift_analyze ==
  /\ At("drift", "analyze")
  /\ \/ Finish("analyze") /\ UNCHANGED raised
     \/ /\ Stop("analyze")
        /\ raised' = Append(raised, Exc("analyze", "backfill.get_metrics",
                                        "ServiceException", FALSE))
  /\ UNCHANGED <<stdout, wsVars, kernelVars, scriptVars>>

DriftNext ==
  \/ drift_pipshow
  \/ drift_baseline
  \/ drift_target
  \/ drift_monitor
  \/ drift_backfill
  \/ drift_analyze

BatchNext ==
  \/ batch_train
  \/ batch_simulate
  \/ batch_environment
  \/ batch_configure
  \/ batch_submit
  \/ batch_retrieve
  \/ batch_init
  \/ batch_run

ScoreNext ==
  \/ score_init
  \/ score_run_parse
  \/ score_run_predict
  \/ score_run_log
  \/ score_run_return

Next ==
  \/ connect
  \/ folder
  \/ writefile
  \/ compute
  \/ BatchNext
  \/ TelemetryNext
  \/ HyperNext
  \/ DriftNext
  \/ ScoreNext

Spec == Init /\ [][Next]_vars

(***************************************************************************)
(* The claims.                                                             *)
(***************************************************************************)
\* A step that runs the compute-target cell.
ComputeStep == pc = "compute" /\ executed' # executed

\* C1 (as stated): the compute-target step only looks the cluster up: it
\* makes no change at all to the workspace, whether the cluster is found or
\* the lookup raises ComputeTargetException.
C1_LookupChangesNothing == [][ComputeStep => wsVars' = wsVars]_vars

\* C1 (amended): the compute-target step never creates a cluster and leaves
\* the datasets, the datastore and the models alone; the one change it can
\* make is to set image_build_compute to the cluster's name, in the batch and
\* hyperparameter notebooks when the cluster is found.  In the drift
\* notebook, and whenever the lookup raises ComputeTargetException, the
\* workspace is unchanged; in the latter case the cell only prints its
\* message and completes normally.
C1_LookupFrame ==
  [][ComputeStep =>
       /\ clusters' = clusters
       /\ datasets' = datasets /\ datastore' = datastore /\ models' = models
       /\ image_build_compute' # image_build_compute =>
            /\ nb \in {"batch", "hyper"}
            /\ cluster_name(nb) \in clusters
            /\ image_build_compute' = cluster_name(nb)
       /\ nb = "drift" => wsVars' = wsVars
       /\ (Len(raised') > Len(raised) /\ raised'[Len(raised')].caught) =>
            /\ wsVars' = wsVars
            /\ cluster_var' = cluster_var
            /\ stdout' = Append(stdout, "There is no existing cluster by that name.")
            /\ pc' = NextCell(nb, "compute")]_vars

\* C1 witness: the cell found the cluster and set image_build_compute to it.
C1_Witness ==
  /\ \E i \in 1..Len(executed) : executed[i] = "compute"
  /\ pc # "failed"
  /\ image_build_compute = cluster_name(nb)

\* C2 (as stated): the only exception a notebook catches is the one of the
\* compute-cluster lookup; any other failure stops the notebook.
C2_OnlyLookupCaught ==
  \A i \in 1..Len(raised) :
    /\ raised[i].caught => raised[i].call = "ComputeTarget"
    /\ raised[i].call # "ComputeTarget" => pc = "failed" /\ i = Len(raised)

\* C2 (amended): a notebook catches the ComputeTargetException of the cluster
\* lookup and, in the batch, telemetry and hyperparameter notebooks, any
\* exception of the dataset registration; every other failure is uncaught:
\* it is the last thing that happens, in the last cell that ran, and the
\* session has stopped.
C2_CaughtFailures ==
  \A i \in 1..Len(raised) :
    /\ raised[i].caught =>
         \/ raised[i].call = "ComputeTarget" /\ raised[i].exc = "ComputeTargetException"
         \/ raised[i].call = "Dataset.register"
              /\ nb \in {"batch", "telemetry", "hyper"}
    /\ ~raised[i].caught =>
         /\ pc = "failed"
         /\ i = Len(raised)
         /\ executed # << >>
         /\ executed[Len(executed)] = raised[i].cell
    /\ (pc = "failed") => ~raised[Len(raised)].caught

\* C2 witness: a dataset registration failed, was caught, and the notebook
\* ran to its end.
C2_Witness ==
  /\ pc = "done"
  /\ \E i \in 1..Len(raised) :
       raised[i].caught /\ raised[i].call = "Dataset.register"

\* C3: when every file of the mini-batch can be read and the model is loaded,
\* run returns one entry per file, in the order of the files, the i-th being
\* the base name of the i-th file, ": " and the model's prediction for its
\* row; an empty mini-batch gives an empty list.
C3_OneEntryPerFile ==
  LET mb == batch.mini_batch IN
  (/\ batch.call = "run"
   /\ \A i \in 1..Len(mb) : mb[i][Len(mb[i])] # "gone.csv"
   /\ batch.model # NoModel \/ mb = << >>)
  => /\ batch.raised = ""
     /\ Len(batch.result) = Len(mb)
     /\ \A i \in 1..Len(mb) :
          batch.result[i] =
            <<mb[i][Len(mb[i])], ": ",
              (genfromtxt(mb[i]) + batch.model.version) % Labels>>

\* C3 witness: run returned the entries of a mini-batch of two different files.
C3_Witness ==
  /\ batch.call = "run"
  /\ batch.raised = ""
  /\ Len(batch.mini_batch) = 2
  /\ batch.mini_batch[1] # batch.mini_batch[2]
  /\ Len(batch.result) = 2

\* The call of score_diabetes.run has ended (returned or raised).
ScoreCallEnded == score.pc = "idle" /\ score.last \in {"returned", "raised"}

\* C4: a request whose 'data' holds n rows that the loaded model predicts as
\* 0 or 1 only is answered with a JSON array of n class names in row order,
\* 'not-diabetic' for 0 and 'diabetic' for 1.
C4_ClassNames ==
  LET raw == score.raw_data
      n == Len(raw.data)
      p == [i \in 1..n |-> (raw.data[i] + score.model.version) % Labels]
  IN (/\ ScoreCallEnded
      /\ raw.json /\ raw.has_data /\ n > 0
      /\ score.model # NoModel
      /\ \A i \in 1..n : raw.data[i] # BadRow /\ p[i] \in {0, 1})
     => /\ score.last = "returned"
        /\ score.response =
             [array |-> [i \in 1..n |->
                           IF p[i] = 0 THEN "not-diabetic" ELSE "diabetic"]]

\* C4 witness: a request of two rows was answered with both class names.
C4_Witness ==
  /\ score.pc = "idle"
  /\ score.last = "returned"
  /\ Len(score.raw_data.data) = 2
  /\ score.response.array = <<"not-diabetic", "diabetic">>

\* C5 (as stated): in both entry scripts only init sets the model and no run
\* call changes it; a run call made before init has no model and fails
\* instead of returning a result.
C5_RunBeforeInitFails ==
  [][/\ batch'.model # batch.model => batch'.call = "init"
     /\ score'.model # score.model => score'.last = "init" /\ score.pc = "idle"
     /\ (batch'.call = "run" /\ batch'.model = NoModel) => batch'.raised # ""
     /\ (score'.last = "returned") => score'.model # NoModel]_vars

\* C5 (amended): in both entry scripts only init sets the global model: no
\* step of run changes it, and a model that is set is the one init loaded
\* from the registry.  Before init there is no model: score_diabetes.run
\* then never returns a result, and batch_diabetes.run raises for every
\* non-empty mini-batch but returns the empty list for an empty one.
C5_ModelSetOnlyByInit ==
  [][/\ batch'.model # batch.model => batch'.call = "init"
     /\ score'.model # score.model => score'.last = "init" /\ score.pc = "idle"
     /\ batch'.model # NoModel => batch'.model = load_model(models')
     /\ score'.model # NoModel => score'.model = load_model(models')
     /\ (batch'.call = "run" /\ batch'.model = NoModel) =>
          IF batch'.mini_batch = << >>
          THEN batch'.raised = "" /\ batch'.result = << >>
          ELSE batch'.raised # ""
     /\ (score'.last = "returned") => score'.model # NoModel]_vars

\* C5 witness: run was called before init with an empty mini-batch and
\* returned the empty list.
C5_Witness ==
  /\ batch.call = "run"
  /\ batch.model = NoModel
  /\ batch.mini_batch = << >>
  /\ batch.raised = ""
  /\ batch.result = << >>

\* The line run prints for the request it is serving.
LogLine == <<"Data:", score.data, " - Predictions:", score.predictions>>

\* C6: a request for which the model returned predictions has its data and
\* its predictions printed before run returns or fails: once the call is
\* past the print, and when it has ended, the log holds the line with this
\* request's data and predictions; no response is returned without it.
C6_LoggedBeforeResponse ==
  /\ (score.predicted /\ (score.pc = "map" \/ ScoreCallEnded)) =>
       /\ score.log = LogLine
       /\ score.data = score.raw_data.data
       /\ Len(score.predictions) = Len(score.data)
  /\ (score.pc = "idle" /\ score.last = "returned") =>
       score.predicted /\ score.log = LogLine

\* C6 witness: run failed after the model had predicted (a prediction with
\* no class name), and the request is in the log.
C6_Witness ==
  /\ score.pc = "idle"
  /\ score.last = "raised"
  /\ score.raised = "IndexError"
  /\ score.predicted
  /\ score.log = LogLine

\* Cell c of the running notebook ran to its end without an exception.
RanCleanly(c) ==
  /\ \E i \in 1..Len(executed) : executed[i] = c
  /\ \A i \in 1..Len(raised) : raised[i].cell # c

\* C7: whenever create_from_datasets is reached, and once the monitor is
\* created, the baseline dataset 'diabetes baseline' and the target dataset
\* 'diabetes target' have both been registered successfully by this
\* notebook; the monitor is created over exactly these two, baseline first.
C7_MonitorOverRegisteredDatasets ==
  ((nb = "drift" /\ pc = "monitor") \/ monitor.created) =>
    /\ nb = "drift"
    /\ RanCleanly("baseline") /\ RanCleanly("target")
    /\ datasets["diabetes baseline"] >= 1
    /\ datasets["diabetes target"] >= 1
    /\ ds_vars["baseline_data_set"] =
         [name |-> "diabetes baseline",
          version |-> datasets["diabetes baseline"], defined |-> TRUE]
    /\ ds_vars["target_data_set"] =
         [name |-> "diabetes target",
          version |-> datasets["diabetes target"], defined |-> TRUE]
    /\ monitor.created =>
         /\ monitor.baseline = ds_vars["baseline_data_set"]
         /\ monitor.target = ds_vars["target_data_set"]

\* C7 witness: the monitor has been created.
C7_Witness ==
  /\ monitor.created
  /\ monitor.baseline.name = "diabetes baseline"
  /\ monitor.target.name = "diabetes target"

\* The six combinations of the grid, written out.
Combinations == {1, 10, 100} \X {10, 100}

\* C8: the grid has exactly 6 combinations and the experiment is limited to
\* 6 runs, so when the hyperdrive experiment has completed there are 6 child
\* runs, all ended, and every combination was tried by exactly one of them.
C8_EveryCombinationOnce ==
  /\ Cardinality(Combinations) = 6
  /\ {Grid[i] : i \in 1..Len(Grid)} = Combinations
  /\ hd.status = "Completed" =>
       /\ Len(hd.children) = 6
       /\ \A i \in 1..Len(hd.children) : hd.children[i].status # "Running"
       /\ \A c \in Combinations :
            Cardinality({i \in 1..Len(hd.children) : hd.children[i].params = c}) = 1

\* C8 witness: the experiment completed, with a failed child run among the six.
C8_Witness ==
  /\ hd.status = "Completed"
  /\ \E i \in 1..Len(hd.children) : hd.children[i].status = "Failed"
  /\ \E i \in 1..Len(hd.children) : hd.children[i].status = "Completed"

RanAt(c) ==
  IF \E i \in 1..Len(executed) : executed[i] = c
  THEN CHOOSE i \in 1..Len(executed) : executed[i] = c
  ELSE 0

\* C10: in the telemetry notebook the service is deployed and healthy before
\* Application Insights is enabled on it, and a request is sent only after
\* that: every request the notebook sent went to a healthy service with
\* Application Insights on.
C10_InsightsBeforeRequest ==
  /\ RanAt("insights") > 0 => 0 < RanAt("deploy") /\ RanAt("deploy") < RanAt("insights")
  /\ RanAt("request") > 0 => 0 < RanAt("insights") /\ RanAt("insights") < RanAt("request")
  /\ aci_service.app_insights => aci_service.state = "Healthy"
  /\ \A i \in 1..Len(requests) :
       /\ nb = "telemetry"
       /\ RanCleanly("deploy") /\ RanCleanly("insights")
       /\ requests[i].app_insights
       /\ requests[i].state = "Healthy"

\* C10 witness: the notebook's request was answered by the service.
C10_Witness ==
  /\ Len(requests) = 1
  /\ requests[1].app_insights
  /\ requests[1].response.status_code = 200

\* The model versions the inline-training cell of this session registered.
InlineModels == {k \in 1..Len(models) : models[k].context = "Inline Training"}

\* C11: in the inline-training cells the run is marked complete only after
\* 'Accuracy' and 'AUC' have both been logged on it and the model file has
\* been uploaded to 'outputs/'; a model is registered only after the run is
\* complete, and its AUC and Accuracy properties are the values logged on
\* that run.
C11_RegisterAfterComplete ==
  /\ run.status = "Completed" =>
       /\ run.Accuracy \in Metrics
       /\ run.AUC \in Metrics
       /\ "outputs/diabetes_model.pkl" \in run.files
  /\ run.status \in {"none", "Running"} => InlineModels = {}
  /\ run.status = "none" => run.Accuracy = 0 /\ run.AUC = 0 /\ run.files = {}
  /\ \A k \in InlineModels :
       /\ nb \in {"batch", "telemetry"}
       /\ k = Len(models)
       /\ run.status = "Completed"
       /\ models[k].name = "diabetes_model"
       /\ models[k].AUC = run.AUC
       /\ models[k].Accuracy = run.Accuracy

\* C11 witness: the cell registered a model from a completed run whose
\* logged AUC and Accuracy differ, over an earlier version of the model.
C11_Witness ==
  /\ InlineModels # {}
  /\ Len(models) > 1
  /\ run.status = "Completed"
  /\ run.AUC # run.Accuracy
  /\ models[Len(models)].AUC = run.AUC

\* C12: the target-data simulation writes exactly 6 files, for 5, 4, 3, 2, 1
\* and 0 weeks before today, oldest first; their dates are pairwise
\* distinct, consecutive dates are exactly 7 days apart, the last file is
\* dated today (the day the loop ends on), and file_paths lists them in the
\* order written.
C12_SixWeeklyFiles ==
  file_paths # << >> =>
    LET n == Len(file_paths)
        today == file_paths[n].today
    IN /\ n = 6
       /\ \A i \in 1..n : file_paths[i].date = today - 7 * (6 - i)
       /\ \A i, j \in 1..n : i # j => file_paths[i].date # file_paths[j].date
       /\ \A i \in 1..(n - 1) : file_paths[i + 1].date - file_paths[i].date = 7
       /\ file_paths[n].date = today

\* C12: what holds whenever the loop has run: 6 files in the order written,
\* the i-th dated 6 - i weeks before the day it was written on, dates
\* strictly increasing by at least 7 days, the last one dated the day the
\* loop ended on.
C12_FilesPerIteration ==
  file_paths # << >> =>
    LET n == Len(file_paths) IN
    /\ n = 6
    /\ \A i \in 1..n : file_paths[i].date = file_paths[i].today - 7 * (6 - i)
    /\ \A i \in 1..(n - 1) : file_paths[i + 1].date - file_paths[i].date >= 7
    /\ file_paths[n].date = file_paths[n].today

\* C12: the loop ran while the day changed: two consecutive files are dated
\* 8 days apart.
C12_MidnightRun ==
  /\ Len(file_paths) = 6
  /\ \E i \in 1..5 : file_paths[i + 1].date - file_paths[i].date = 8

=============================================================================
